---- MODULE Spec2Model ----
(***************************************************************************)
(* Model of the vessel foundation-load calculator (NLTrans_V.0sm.py and    *)
(* its earlier variant DS_NLTrans_F.py).                                   *)
(*                                                                         *)
(* Numbers.  The programs compute with Python floats.  The model computes  *)
(* with exact rationals <<n, d>> (d > 0, lowest terms) and draws its       *)
(* inputs from sets on which every square root and every sine and cosine   *)
(* the code evaluates is rational: orientations are multiples of 90        *)
(* degrees and head offsets are the fractions 0, 7/25, 3/5, 4/5, 1, 6/5    *)
(* of the vessel radius.  A raised Python exception is a value             *)
(* [ok |-> FALSE, exc |-> <name>].                                         *)
(***************************************************************************)
EXTENDS Integers, Sequences, FiniteSets, TLC

(***************************************************************************)
(* Exact rational arithmetic                                               *)
(***************************************************************************)
Abs(n) == IF n < 0 THEN -n ELSE n

RECURSIVE GCD(_, _)
GCD(a, b) == IF b = 0 THEN a ELSE GCD(b, a % b)

\* n/d in lowest terms with a positive denominator (d # 0)
Rat(n, d) ==
    LET g == GCD(Abs(n), Abs(d))
        s == IF d < 0 THEN -1 ELSE 1
    IN  <<(s * n) \div g, (s * d) \div g>>

Num(n) == <<n, 1>>
Zero == Num(0)
One == Num(1)

RAdd(a, b) == Rat(a[1] * b[2] + b[1] * a[2], a[2] * b[2])
RNeg(a) == <<-a[1], a[2]>>
RSub(a, b) == RAdd(a, RNeg(b))
RMul(a, b) == Rat(a[1] * b[1], a[2] * b[2])
RDiv(a, b) == Rat(a[1] * b[2], a[2] * b[1])
RSq(a) == RMul(a, a)
RLt(a, b) == a[1] * b[2] < b[1] * a[2]
RLe(a, b) == a[1] * b[2] <= b[1] * a[2]

\* the integer k >= 0 with k * k = n (n a perfect square)
ISqrt(n) == CHOOSE k \in 0..n : k * k = n

\* math.sqrt: ValueError (math domain error) on a negative argument
sqrt(x) ==
    IF RLt(x, Zero)
    THEN [ok |-> FALSE, exc |-> "ValueError"]
    ELSE [ok |-> TRUE, val |-> <<ISqrt(x[1]), ISqrt(x[2])>>]

\* math.radians: degrees to radians, kept as the rational multiple of pi
radians(deg) == Rat(deg, 180)

\* twice the angle (in units of pi) reduced to a quarter-turn index 0..3
Quarter(a) == ((2 * a[1]) \div a[2]) % 4

\* math.sin and math.cos of a multiple of pi/2
sin(a) == Num(<<0, 1, 0, -1>>[Quarter(a) + 1])
cos(a) == Num(<<1, 0, -1, 0>>[Quarter(a) + 1])

(***************************************************************************)
(* Python's substring tests on the location strings of the select box      *)
(***************************************************************************)
Locations ==
    {"Shell", "Hemispherical Top Head", "Hemispherical Bottom Head",
     "Ellipsoidal Top Head", "Ellipsoidal Bottom Head"}

\* "Hemispherical" in s
InHemispherical(s) ==
    s \in {"Hemispherical", "Hemispherical Top Head", "Hemispherical Bottom Head"}
\* "Ellipsoidal" in s
InEllipsoidal(s) ==
    s \in {"Ellipsoidal", "Ellipsoidal Top Head", "Ellipsoidal Bottom Head"}
\* "Top" in s
InTop(s) == s \in {"Hemispherical Top Head", "Ellipsoidal Top Head"}
\* "Head" in s
InHead(s) ==
    s \in {"Hemispherical Top Head", "Hemispherical Bottom Head",
           "Ellipsoidal Top Head", "Ellipsoidal Bottom Head"}

\* the default of calculate_head_depth's aspect_ratio parameter, of
\* component.get('aspect_ratio', 2.0) and of the Aspect Ratio field
DefaultAspectRatio == Num(2)

\* component.get('aspect_ratio', 2.0)
get_aspect_ratio(component) ==
    IF "aspect_ratio" \in DOMAIN component
    THEN component.aspect_ratio ELSE DefaultAspectRatio

(***************************************************************************)
(* NLTrans_V.0sm.py: geometry and load transformation                      *)
(***************************************************************************)
\* mutant: the aspect ratio passed is ignored for the default one
calculate_head_depth_default_ratio(head_type, R, aspect_ratio) ==
    IF InHemispherical(head_type) THEN R
    ELSE IF InEllipsoidal(head_type) THEN RDiv(R, DefaultAspectRatio)
    ELSE Zero

calculate_head_depth(head_type, R, aspect_ratio) ==
    IF InHemispherical(head_type) THEN R
    ELSE IF InEllipsoidal(head_type) THEN RDiv(R, aspect_ratio)
    ELSE Zero

\* base_elevation + sign * (a square-root term), or the exception the
\* square root raised
AddRoot(base_elevation, sign, factor, root) ==
    IF root.ok
    THEN [ok |-> TRUE,
          val |-> RAdd(base_elevation, RMul(Num(sign), RMul(factor, root.val)))]
    ELSE root

\* mutant: the hemispherical term is subtracted the other way round
sqrt_argument_reversed(location, head_depth, offset, R) ==
    IF InHemispherical(location)
    THEN RSub(RSq(offset), RSq(head_depth))
    ELSE RSub(One, RDiv(RSq(offset), RSq(R)))

\* the argument handed to math.sqrt for a head attachment off the axis:
\* head_depth**2 - offset**2, or 1 - (offset**2)/(R**2)
sqrt_argument(location, head_depth, offset, R) ==
    IF InHemispherical(location)
    THEN RSub(RSq(head_depth), RSq(offset))
    ELSE RSub(One, RDiv(RSq(offset), RSq(R)))

\* the Y coordinate of calculate_position
position_Y(component, support_height, R, L) ==
    LET location == component.location
        offset == component.offset
    IN  IF location = "Shell"
        THEN [ok |-> TRUE, val |-> RAdd(support_height, component.elevation)]
        ELSE
        LET head_type == IF InHemispherical(location)
                         THEN "Hemispherical" ELSE "Ellipsoidal"
            aspect_ratio == get_aspect_ratio(component)
            head_depth == calculate_head_depth(head_type, R, aspect_ratio)
            root == sqrt(sqrt_argument(location, head_depth, offset, R))
        IN  IF InTop(location)
            THEN LET base_elevation == RAdd(support_height, L)
                 IN  IF offset = Zero
                     THEN [ok |-> TRUE, val |-> RAdd(base_elevation, head_depth)]
                     ELSE IF InHemispherical(location)
                     THEN AddRoot(base_elevation, 1, One, root)
                     ELSE AddRoot(base_elevation, 1, head_depth, root)
            ELSE LET base_elevation == support_height
                 IN  IF offset = Zero
                     THEN [ok |-> TRUE, val |-> RSub(base_elevation, head_depth)]
                     ELSE IF InHemispherical(location)
                     THEN AddRoot(base_elevation, -1, One, root)
                     ELSE AddRoot(base_elevation, -1, head_depth, root)

calculate_position(component, support_height, R, L) ==
    LET th == radians(component.theta)
        offset == component.offset
        X == RMul(offset, sin(th))
        Z == RMul(RNeg(offset), cos(th))
        Y == position_Y(component, support_height, R, L)
    IN  IF Y.ok THEN [ok |-> TRUE, X |-> X, Y |-> Y.val, Z |-> Z] ELSE Y

\* mutant: Mz takes Fy where the code takes Fx
loads_result_Mz_from_Fy(pos, Fx, Fy, Fz) ==
    [ok |-> TRUE,
     Fx |-> Fx, Fy |-> Fy, Fz |-> Fz,
     Mx |-> RSub(RMul(pos.Y, Fz), RMul(pos.Z, Fy)),
     My |-> RSub(RMul(pos.Z, Fx), RMul(pos.X, Fz)),
     Mz |-> RSub(RMul(pos.X, Fy), RMul(pos.Y, Fy))]

\* Moment calculation (r x F) and the dictionary returned
loads_result(pos, Fx, Fy, Fz) ==
    [ok |-> TRUE,
     Fx |-> Fx, Fy |-> Fy, Fz |-> Fz,
     Mx |-> RSub(RMul(pos.Y, Fz), RMul(pos.Z, Fy)),
     My |-> RSub(RMul(pos.Z, Fx), RMul(pos.X, Fz)),
     Mz |-> RSub(RMul(pos.X, Fy), RMul(pos.Y, Fx))]

\* the Bottom-head branch of transform_nozzle_loads
bottom_head_forces(nozzle, s, c) ==
    [Fx |-> RAdd(RMul(RNeg(nozzle.V1), s), RMul(nozzle.V2, c)),
     Fy |-> RNeg(nozzle.P),
     Fz |-> RAdd(RMul(nozzle.V1, c), RMul(nozzle.V2, s))]

\* the Top-head branch of transform_nozzle_loads
top_head_forces(nozzle, s, c) ==
    [Fx |-> RAdd(RMul(nozzle.V1, s), RMul(nozzle.V2, c)),
     Fy |-> nozzle.P,
     Fz |-> RAdd(RMul(RNeg(nozzle.V1), c), RMul(nozzle.V2, s))]

\* the Shell branch of transform_nozzle_loads
shell_forces(nozzle, s, c) ==
    [Fx |-> RAdd(RMul(nozzle.P, s), RMul(nozzle.Vc, c)),
     Fy |-> nozzle.VL,
     Fz |-> RAdd(RMul(RNeg(nozzle.P), c), RMul(nozzle.Vc, s))]

transform_nozzle_loads(nozzle, support_height, R, L) ==
    LET pos == calculate_position(nozzle, support_height, R, L)
        th == radians(nozzle.theta)
        F == IF InHead(nozzle.location)
             THEN IF InTop(nozzle.location)
                  THEN top_head_forces(nozzle, sin(th), cos(th))
                  ELSE bottom_head_forces(nozzle, sin(th), cos(th))
             ELSE shell_forces(nozzle, sin(th), cos(th))
    IN  IF pos.ok THEN loads_result(pos, F.Fx, F.Fy, F.Fz) ELSE pos

transform_support_loads(support, support_height, R, L) ==
    LET pos == calculate_position(support, support_height, R, L)
        th == radians(support.theta)
        Fx == RAdd(RMul(support.Fh1, sin(th)), RMul(support.Fh2, cos(th)))
        Fy == support.Fv
        Fz == RAdd(RMul(RNeg(support.Fh1), cos(th)), RMul(support.Fh2, sin(th)))
    IN  IF pos.ok THEN loads_result(pos, Fx, Fy, Fz) ELSE pos

(***************************************************************************)
(* DS_NLTrans_F.py: geometry and load transformation                       *)
(***************************************************************************)
\* mutant: the ellipsoidal depth ignores the aspect ratio passed
DS_calculate_head_depth_default_ratio(head_type, R, aspect_ratio) ==
    IF InHemispherical(head_type) THEN R
    ELSE IF InEllipsoidal(head_type) THEN RDiv(R, DefaultAspectRatio)
    ELSE Zero

DS_calculate_head_depth(head_type, R, aspect_ratio) ==
    IF InHemispherical(head_type) THEN R
    ELSE IF InEllipsoidal(head_type) THEN RDiv(R, aspect_ratio)
    ELSE Zero

\* the Y coordinate of DS_NLTrans_F.calculate_position
DS_position_Y(nozzle, support_height, R, L) ==
    LET location == nozzle.location
        offset == nozzle.offset
    IN  IF location = "Shell"
        THEN [ok |-> TRUE, val |-> RAdd(support_height, nozzle.elevation)]
        ELSE
        LET head_type == IF InHemispherical(location)
                         THEN "Hemispherical" ELSE "Ellipsoidal"
            aspect_ratio == get_aspect_ratio(nozzle)
            head_depth == DS_calculate_head_depth(head_type, R, aspect_ratio)
            hemi_root == sqrt(RSub(RSq(head_depth), RSq(offset)))
            ellip_root == sqrt(RSub(One, RDiv(RSq(offset), RSq(R))))
        IN  IF InTop(location)
            THEN LET base_elevation == RAdd(RAdd(support_height, L), head_depth)
                 IN  IF InHemispherical(location)
                     THEN AddRoot(RAdd(base_elevation, head_depth), -1, One,
                                  hemi_root)
                     ELSE AddRoot(RAdd(base_elevation, head_depth), -1,
                                  head_depth, ellip_root)
            ELSE LET base_elevation == RSub(support_height, head_depth)
                 IN  IF InHemispherical(location)
                     THEN AddRoot(RSub(base_elevation, head_depth), 1, One,
                                  hemi_root)
                     ELSE AddRoot(RSub(base_elevation, head_depth), 1,
                                  head_depth, ellip_root)

DS_calculate_position(nozzle, support_height, R, L) ==
    LET th == radians(nozzle.theta)
        offset == nozzle.offset
        X == RMul(offset, sin(th))
        Z == RMul(RNeg(offset), cos(th))
        Y == DS_position_Y(nozzle, support_height, R, L)
    IN  IF Y.ok THEN [ok |-> TRUE, X |-> X, Y |-> Y.val, Z |-> Z] ELSE Y

\* the Head branch of DS_NLTrans_F.transform_loads (Top and Bottom alike)
DS_head_forces(nozzle, s, c) ==
    [Fx |-> RAdd(RMul(nozzle.V1, s), RMul(nozzle.V2, c)),
     Fy |-> nozzle.P,
     Fz |-> RAdd(RMul(RNeg(nozzle.V1), c), RMul(nozzle.V2, s))]

\* the Shell branch of DS_NLTrans_F.transform_loads
DS_shell_forces(nozzle, s, c) ==
    [Fx |-> RAdd(RMul(nozzle.P, s), RMul(nozzle.Vc, c)),
     Fy |-> nozzle.VL,
     Fz |-> RAdd(RMul(RNeg(nozzle.P), c), RMul(nozzle.Vc, s))]

\* Moment calculation and the tuple returned
DS_loads_result(pos, Fx, Fy, Fz) ==
    [ok |-> TRUE,
     Fx |-> Fx, Fy |-> Fy, Fz |-> Fz,
     Mx |-> RSub(RMul(pos.Y, Fz), RMul(pos.Z, Fy)),
     My |-> RSub(RMul(pos.Z, Fx), RMul(pos.X, Fz)),
     Mz |-> RSub(RMul(pos.X, Fy), RMul(pos.Y, Fx))]

DS_transform_loads(nozzle, support_height, R, L) ==
    LET pos == DS_calculate_position(nozzle, support_height, R, L)
        th == radians(nozzle.theta)
        F == IF InHead(nozzle.location)
             THEN DS_head_forces(nozzle, sin(th), cos(th))
             ELSE DS_shell_forces(nozzle, sin(th), cos(th))
    IN  IF pos.ok THEN DS_loads_result(pos, F.Fx, F.Fy, F.Fz) ELSE pos

(***************************************************************************)
(* NLTrans_V.0sm.py: the results table                                     *)
(***************************************************************************)
Components == <<"Fx", "Fy", "Fz", "Mx", "My", "Mz">>
ComponentSet == {"Fx", "Fy", "Fz", "Mx", "My", "Mz"}

\* mutant: the last row is left out of the sum
RECURSIVE column_sum_without_last(_, _)
column_sum_without_last(rows, col) ==
    IF Len(rows) <= 1 THEN Zero
    ELSE RAdd(rows[1][col], column_sum_without_last(Tail(rows), col))

\* df[col].sum()
RECURSIVE column_sum(_, _)
column_sum(rows, col) ==
    IF rows = <<>> THEN Zero
    ELSE RAdd(rows[1][col], column_sum(Tail(rows), col))

\* f"{x:,.2f}": the sign and the hundredths shown, rounded half to even; a
\* negative value that rounds to zero is shown as -0.00
format_2f(x) ==
    LET n == Abs(x[1]) * 100
        q == n \div x[2]
        r == n % x[2]
        cents == IF 2 * r > x[2] THEN q + 1
                 ELSE IF 2 * r = x[2] THEN q + (q % 2)
                 ELSE q
    IN  [neg |-> x[1] < 0, cents |-> cents]

\* one row of formatted_df
format_row(row) ==
    [c \in DOMAIN row |->
        IF c \in ComponentSet THEN format_2f(row[c]) ELSE row[c]]

\* mutant: the pipe supports' rows come first
combine_results_supports_first(nozzle_results, support_results) ==
    IF Len(support_results) > 0
    THEN support_results \o nozzle_results
    ELSE nozzle_results

\* all_results = nozzle_results.copy(); if support_results: extend
combine_results(nozzle_results, support_results) ==
    IF Len(support_results) > 0
    THEN nozzle_results \o support_results
    ELSE nozzle_results

\* the totals dictionary
totals_of(all_results) ==
    [c \in {"Tag No.", "Type"} \cup ComponentSet |->
        IF c = "Tag No." THEN "TOTAL"
        ELSE IF c = "Type" THEN ""
        ELSE column_sum(all_results, c)]

\* pd.concat([formatted_df, totals_row], ignore_index=True)
concat_totals_row(formatted_rows, totals_row) ==
    formatted_rows \o <<totals_row>>

\* display_results: the table shown, or the exception raised.  The frame
\* pd.DataFrame([]) of an empty list has no columns, so df['Fx'] raises
\* KeyError.
display_results(nozzle_results, support_results) ==
    LET all_results == combine_results(nozzle_results, support_results)
        totals == totals_of(all_results)
        formatted_rows == [i \in 1..Len(all_results) |-> format_row(all_results[i])]
    IN  IF all_results = <<>>
        THEN [ok |-> FALSE, exc |-> "KeyError"]
        ELSE [ok |-> TRUE,
              totals |-> totals,
              formatted_df |-> concat_totals_row(formatted_rows, format_row(totals))]

\* one entry of nozzle_results / support_results
result_row(attachment, result) ==
    [c \in {"Tag No.", "Type"} \cup ComponentSet |->
        IF c = "Tag No." THEN attachment.tag_no
        ELSE IF c = "Type" THEN attachment.type
        ELSE result[c]]

\* the loop body after the transformation returned or raised: append the
\* row and go on, or end the loop with the exception
RECURSIVE nozzle_loop(_, _, _, _, _)
nozzle_append(items, acc, result, support_height, R, L) ==
    IF result.ok
    THEN nozzle_loop(Tail(items), Append(acc, result_row(items[1], result)),
                     support_height, R, L)
    ELSE [rows |-> acc, exc |-> result.exc]

\* for nozzle in nozzles: ... append: the rows appended before the loop
\* ended, and the exception that ended it ("none" when it ran to the end)
nozzle_loop(items, acc, support_height, R, L) ==
    IF items = <<>> THEN [rows |-> acc, exc |-> "none"]
    ELSE nozzle_append(items, acc,
                       transform_nozzle_loads(items[1], support_height, R, L),
                       support_height, R, L)

RECURSIVE support_loop(_, _, _, _, _)
support_append(items, acc, result, support_height, R, L) ==
    IF result.ok
    THEN support_loop(Tail(items), Append(acc, result_row(items[1], result)),
                      support_height, R, L)
    ELSE [rows |-> acc, exc |-> result.exc]

\* for support in supports: ... append
support_loop(items, acc, support_height, R, L) ==
    IF items = <<>> THEN [rows |-> acc, exc |-> "none"]
    ELSE support_append(items, acc,
                        transform_support_loads(items[1], support_height, R, L),
                        support_height, R, L)

\* what the run of the Calculate branch leaves: an exception ends the run
\* where it is raised (nl, sl: the two loops; shown: display_results)
calculate_output(nl, sl, shown) ==
    IF nl.exc # "none"
    THEN [outcome |-> nl.exc, nozzle_results |-> nl.rows,
          support_results |-> <<>>, totals |-> <<>>, formatted_df |-> <<>>]
    ELSE IF sl.exc # "none"
    THEN [outcome |-> sl.exc, nozzle_results |-> nl.rows,
          support_results |-> sl.rows, totals |-> <<>>, formatted_df |-> <<>>]
    ELSE IF shown.ok
    THEN [outcome |-> "shown", nozzle_results |-> nl.rows,
          support_results |-> sl.rows, totals |-> <<shown.totals>>,
          formatted_df |-> shown.formatted_df]
    ELSE [outcome |-> shown.exc, nozzle_results |-> nl.rows,
          support_results |-> sl.rows, totals |-> <<>>, formatted_df |-> <<>>]

\* the two loops, then display_results on their rows
calculate_display(nl, sl) ==
    calculate_output(nl, sl, display_results(nl.rows, sl.rows))

\* if st.button("Calculate Foundation Loads"): ...
calculate(nozzle_list, support_list, support_height, R, L) ==
    calculate_display(nozzle_loop(nozzle_list, <<>>, support_height, R, L),
                      support_loop(support_list, <<>>, support_height, R, L))

(***************************************************************************)
(* Bounds and input sets of the model                                      *)
(***************************************************************************)
\* most nozzles and most pipe supports entered (the forms allow 20 each)
MaxNozzles == 2
MaxSupports == 1

\* vessel parameters <<support_height, R, L>>, within the ranges of both
\* programs' fields
Vessels == {<<Num(1), Num(1), Num(10)>>, <<Num(0), Num(5), Num(4)>>}

\* head offsets as fractions of the vessel radius
OffsetFractions == {Zero, Rat(7, 25), Rat(3, 5), Rat(4, 5), One, Rat(6, 5)}
Offsets(R) == {RMul(f, R) : f \in OffsetFractions}

\* values of the Aspect Ratio field
AspectRatios == {Rat(3, 2), Num(2), Num(4)}

\* the values entered in the fields of a form
\*   FormValues: in the running application (Spec)
\*   WideValues: in single calls of the functions (SpecFn)
FormValues ==
    [thetas |-> {90},
     elevations |-> {Num(4)},
     fractions |-> {Rat(7, 25), One},
     aspect_ratios |-> {Num(2), Num(4)},
     loads |-> {<<Num(3), Num(-2), Num(5)>>},
     nozzle_tags |-> {},
     support_offsets |-> {Num(2)},
     support_loads |-> {<<Num(-7), Num(1), Num(4)>>},
     support_tags |-> {"TOTAL"}]

LoadValues == {Num(-2), Zero, Num(3)}
WideValues ==
    [thetas |-> {-180, -90, 0, 90, 180, 270},
     elevations |-> {Zero, Num(4)},
     fractions |-> OffsetFractions,
     aspect_ratios |-> AspectRatios,
     loads |-> LoadValues \X LoadValues \X LoadValues,
     nozzle_tags |-> {},
     support_offsets |-> {Zero, Num(2)},
     support_loads |-> LoadValues \X LoadValues \X LoadValues,
     support_tags |-> {}]

\* st.number_input(label, min_value, max_value, ...): a value within the
\* bounds, both included
number_input(min_value, max_value, values) ==
    {v \in values : RLe(min_value, v) /\ RLe(v, max_value)}

(***************************************************************************)
(* NLTrans_V.0sm.py, main: the forms                                       *)
(***************************************************************************)
\* the Offset field of a head nozzle: max_offset is the head depth at the
\* default aspect ratio
offset_field(location, R, values) ==
    LET head_type == IF InHemispherical(location)
                     THEN "Hemispherical" ELSE "Ellipsoidal"
        max_offset == calculate_head_depth(head_type, R, DefaultAspectRatio)
    IN  number_input(Zero, max_offset, values)

\* the Aspect Ratio field: shown for an ellipsoidal head only
aspect_ratio_field(location, values) ==
    IF InEllipsoidal(location)
    THEN number_input(Rat(3, 2), Num(4), values)
    ELSE {DefaultAspectRatio}

\* the Orientation field: whole degrees 0..359
theta_field(values) == {t \in values : 0 <= t /\ t <= 359}

\* nozzles.append({...})
nozzle_record(location, offset, elevation, theta, aspect_ratio, ld, tag_no) ==
    [location |-> location, offset |-> offset, elevation |-> elevation,
     theta |-> theta, aspect_ratio |-> aspect_ratio,
     P |-> ld[1],
     V1 |-> IF InHead(location) THEN ld[2] ELSE Zero,
     V2 |-> IF InHead(location) THEN ld[3] ELSE Zero,
     Vc |-> IF InHead(location) THEN Zero ELSE ld[2],
     VL |-> IF InHead(location) THEN Zero ELSE ld[3],
     tag_no |-> tag_no, type |-> "Nozzle"]

\* the records one pass of the nozzle form loop (index i, from 0) can append
nozzle_form(i, R, L, V) ==
    LET tags == {"N-" \o ToString(i + 1)} \cup V.nozzle_tags
        shell == { nozzle_record("Shell", Zero, elevation, theta,
                                 DefaultAspectRatio, ld, tag_no) :
                   elevation \in number_input(Zero, L, V.elevations),
                   theta \in theta_field(V.thetas),
                   ld \in V.loads, tag_no \in tags }
        head(location) ==
                 { nozzle_record(location, offset, Zero, theta,
                                 aspect_ratio, ld, tag_no) :
                   offset \in offset_field(location, R,
                                           {RMul(f, R) : f \in V.fractions}),
                   theta \in theta_field(V.thetas),
                   aspect_ratio \in aspect_ratio_field(location, V.aspect_ratios),
                   ld \in V.loads, tag_no \in tags }
    IN  shell \cup UNION { head(location) : location \in Locations \ {"Shell"} }

\* the records one pass of the pipe support form loop can append
support_form(i, R, L, V) ==
    { [location |-> "Shell", offset |-> offset, elevation |-> elevation,
       theta |-> theta, aspect_ratio |-> DefaultAspectRatio,
       Fv |-> ld[1], Fh1 |-> ld[2], Fh2 |-> ld[3],
       tag_no |-> tag_no, type |-> "Pipe Support"] :
      elevation \in number_input(Zero, L, V.elevations),
      theta \in theta_field(V.thetas),
      offset \in number_input(Zero, RAdd(R, Num(2)), V.support_offsets),
      ld \in V.support_loads,
      tag_no \in {"PS-" \o ToString(i + 1)} \cup V.support_tags }

(***************************************************************************)
(* DS_NLTrans_F.py, main: the form                                         *)
(***************************************************************************)
\* the Offset field of a head nozzle
DS_offset_field(location, R, values) ==
    LET head_type == IF InHemispherical(location)
                     THEN "Hemispherical" ELSE "Ellipsoidal"
        max_offset == DS_calculate_head_depth(head_type, R, DefaultAspectRatio)
    IN  number_input(Zero, max_offset, values)

\* the Orientation field: -180.0..180.0
DS_theta_field(values) == {t \in values : -180 <= t /\ t <= 180}

\* nozzles.append({...})
DS_nozzle_record(location, offset, elevation, theta, aspect_ratio, ld) ==
    [location |-> location, offset |-> offset, elevation |-> elevation,
     theta |-> theta, aspect_ratio |-> aspect_ratio,
     P |-> ld[1],
     V1 |-> IF InHead(location) THEN ld[2] ELSE Zero,
     V2 |-> IF InHead(location) THEN ld[3] ELSE Zero,
     Vc |-> IF location = "Shell" THEN ld[2] ELSE Zero,
     VL |-> IF location = "Shell" THEN ld[3] ELSE Zero]

\* the records one pass of the nozzle form loop can append
DS_nozzle_form(R, L, V) ==
    LET shell == { DS_nozzle_record("Shell", Zero, elevation, theta,
                                    DefaultAspectRatio, ld) :
                   elevation \in number_input(Zero, L, V.elevations),
                   theta \in DS_theta_field(V.thetas),
                   ld \in V.loads }
        head(location) ==
                 { DS_nozzle_record(location, offset, Zero, theta,
                                    aspect_ratio, ld) :
                   offset \in DS_offset_field(location, R,
                                              {RMul(f, R) : f \in V.fractions}),
                   theta \in DS_theta_field(V.thetas),
                   aspect_ratio \in aspect_ratio_field(location, V.aspect_ratios),
                   ld \in V.loads }
    IN  shell \cup UNION { head(location) : location \in Locations \ {"Shell"} }

\* the loop body after the transformation returned or raised
RECURSIVE DS_total_loop(_, _, _, _, _)
DS_total_add(items, acc, result, support_height, R, L) ==
    IF result.ok
    THEN DS_total_loop(Tail(items),
                       [c \in ComponentSet |-> RAdd(acc[c], result[c])],
                       support_height, R, L)
    ELSE [totals |-> acc, exc |-> result.exc]

\* for nozzle in nozzles: total_Fx += Fx ...: the totals when the loop ended
\* and the exception that ended it ("none" when it ran to the end)
DS_total_loop(items, acc, support_height, R, L) ==
    IF items = <<>> THEN [totals |-> acc, exc |-> "none"]
    ELSE DS_total_add(items, acc,
                      DS_transform_loads(items[1], support_height, R, L),
                      support_height, R, L)

\* f"{x:.1f}": the sign and the tenths shown, rounded half to even
format_1f(x) ==
    LET n == Abs(x[1]) * 10
        q == n \div x[2]
        r == n % x[2]
        tenths == IF 2 * r > x[2] THEN q + 1
                  ELSE IF 2 * r = x[2] THEN q + (q % 2)
                  ELSE q
    IN  [neg |-> x[1] < 0, tenths |-> tenths]

(***************************************************************************)
(* State                                                                   *)
(***************************************************************************)
VARIABLES
    variant,          \* the program running: "V0sm" or "DS"
    support_height,   \* vessel parameters
    R,
    L,
    nozzles,          \* the nozzle records built by the form
    supports,         \* the pipe support records built by the form
    outcome,          \* "idle", "shown", or the exception Calculate raised
    nozzle_results,   \* the rows of nozzle_results when Calculate ended
    support_results,  \* the rows of support_results when Calculate ended
    totals,           \* <<the totals>> once computed, else <<>>
    formatted_df,     \* the rows of the table (or the metrics) shown
    call,             \* SpecFn: the function called and its argument
    ret               \* SpecFn: <<what the call returned>>, else <<>>

vars == <<variant, support_height, R, L, nozzles, supports, outcome,
          nozzle_results, support_results, totals, formatted_df, call, ret>>

vessel == <<support_height, R, L>>
output == <<outcome, nozzle_results, support_results, totals, formatted_df>>
fn == <<call, ret>>

NoOutput ==
    /\ outcome = "idle"
    /\ nozzle_results = <<>>
    /\ support_results = <<>>
    /\ totals = <<>>
    /\ formatted_df = <<>>

\* a rerun without the button pressed shows no results
ClearOutput ==
    /\ outcome' = "idle"
    /\ nozzle_results' = <<>>
    /\ support_results' = <<>>
    /\ totals' = <<>>
    /\ formatted_df' = <<>>

Init ==
    /\ variant \in {"V0sm", "DS"}
    /\ \E v \in Vessels : support_height = v[1] /\ R = v[2] /\ L = v[3]
    /\ nozzles = <<>>
    /\ supports = <<>>
    /\ NoOutput
    /\ call = [fn |-> "none"]
    /\ ret = <<>>

(***************************************************************************)
(* NLTrans_V.0sm.py: actions                                               *)
(***************************************************************************)
\* one more nozzle is entered: the form loop appends its record; the rerun
\* shows no results until Calculate is pressed again
NozzleForm ==
    /\ variant = "V0sm"
    /\ Len(nozzles) < MaxNozzles
    /\ \E n \in nozzle_form(Len(nozzles), R, L, FormValues) :
          nozzles' = Append(nozzles, n)
    /\ ClearOutput
    /\ UNCHANGED <<variant, vessel, supports, fn>>

\* one more pipe support is entered
SupportForm ==
    /\ variant = "V0sm"
    /\ Len(supports) < MaxSupports
    /\ \E n \in support_form(Len(supports), R, L, FormValues) :
          supports' = Append(supports, n)
    /\ ClearOutput
    /\ UNCHANGED <<variant, vessel, nozzles, fn>>

\* the Calculate Foundation Loads button is pressed
Calculate ==
    /\ variant = "V0sm"
    /\ \E out \in {calculate(nozzles, supports, support_height, R, L)} :
          /\ outcome' = out.outcome
          /\ nozzle_results' = out.nozzle_results
          /\ support_results' = out.support_results
          /\ totals' = out.totals
          /\ formatted_df' = out.formatted_df
    /\ UNCHANGED <<variant, vessel, nozzles, supports, fn>>

(***************************************************************************)
(* DS_NLTrans_F.py: actions                                                *)
(***************************************************************************)
DS_ZeroTotals == [c \in ComponentSet |-> Zero]

\* one more nozzle is entered
DS_NozzleForm ==
    /\ variant = "DS"
    /\ Len(nozzles) < MaxNozzles
    /\ \E n \in DS_nozzle_form(R, L, FormValues) :
          nozzles' = Append(nozzles, n)
    /\ ClearOutput
    /\ UNCHANGED <<variant, vessel, supports, fn>>

\* what the run of the Calculate branch leaves (tl: the loop)
DS_calculate_output(tl) ==
    IF tl.exc # "none"
    THEN [outcome |-> tl.exc, totals |-> <<>>, formatted_df |-> <<>>]
    ELSE [outcome |-> "shown", totals |-> <<tl.totals>>,
          formatted_df |-> <<[c \in ComponentSet |-> format_1f(tl.totals[c])]>>]

\* the Calculate Foundation Loads button is pressed: the loop, then the
\* six metrics; the Number of Nozzles field is at least 1
DS_Calculate ==
    /\ variant = "DS"
    /\ Len(nozzles) >= 1
    /\ \E out \in {DS_calculate_output(
                      DS_total_loop(nozzles, DS_ZeroTotals, support_height, R, L))} :
          /\ outcome' = out.outcome
          /\ totals' = out.totals
          /\ formatted_df' = out.formatted_df
    /\ nozzle_results' = <<>>
    /\ support_results' = <<>>
    /\ UNCHANGED <<variant, vessel, nozzles, supports, fn>>

Next ==
    \/ NozzleForm
    \/ SupportForm
    \/ Calculate
    \/ DS_NozzleForm
    \/ DS_Calculate

Spec == Init /\ [][Next]_vars

(***************************************************************************)
(* Single calls of the functions (SpecFn).  The argument is a record a     *)
(* form built (origin "form") or one passed by another caller, whose       *)
(* fields the forms' bounds do not limit (origin "direct").                *)
(***************************************************************************)
DirectValues ==
    [WideValues EXCEPT !.loads = {<<Num(3), Num(-2), Num(5)>>}]

\* nozzle records whose fields no form has bounded
direct_nozzles(radius, V) ==
    { nozzle_record(location, offset, elevation, theta, aspect_ratio, ld, "N-1") :
      location \in Locations,
      offset \in {RMul(f, radius) : f \in V.fractions},
      elevation \in V.elevations,
      theta \in V.thetas,
      aspect_ratio \in V.aspect_ratios,
      ld \in V.loads }

InitFn ==
    /\ variant \in {"V0sm", "DS"}
    /\ \E v \in Vessels : support_height = v[1] /\ R = v[2] /\ L = v[3]
    /\ nozzles = <<>>
    /\ supports = <<>>
    /\ NoOutput
    /\ \/ /\ variant = "V0sm"
          /\ \E a \in nozzle_form(0, R, L, WideValues)
                      \cup support_form(0, R, L, WideValues) :
                call = [fn |-> "none", origin |-> "form", arg |-> a]
       \/ /\ variant = "DS"
          /\ \E a \in DS_nozzle_form(R, L, WideValues) :
                call = [fn |-> "none", origin |-> "form", arg |-> a]
       \/ \E a \in direct_nozzles(R, DirectValues) :
                call = [fn |-> "none", origin |-> "direct", arg |-> a]
    /\ ret = <<>>

IsNozzle(a) == "P" \in DOMAIN a
IsSupport(a) == "Fv" \in DOMAIN a

Fn_calculate_position ==
    /\ variant = "V0sm"
    /\ call.fn = "none"
    /\ call' = [call EXCEPT !.fn = "calculate_position"]
    /\ ret' = <<calculate_position(call.arg, support_height, R, L)>>
    /\ UNCHANGED <<variant, vessel, nozzles, supports, output>>

Fn_transform_nozzle_loads ==
    /\ variant = "V0sm"
    /\ call.fn = "none"
    /\ IsNozzle(call.arg)
    /\ call' = [call EXCEPT !.fn = "transform_nozzle_loads"]
    /\ ret' = <<transform_nozzle_loads(call.arg, support_height, R, L)>>
    /\ UNCHANGED <<variant, vessel, nozzles, supports, output>>

Fn_transform_support_loads ==
    /\ variant = "V0sm"
    /\ call.fn = "none"
    /\ IsSupport(call.arg)
    /\ call' = [call EXCEPT !.fn = "transform_support_loads"]
    /\ ret' = <<transform_support_loads(call.arg, support_height, R, L)>>
    /\ UNCHANGED <<variant, vessel, nozzles, supports, output>>

Fn_DS_calculate_position ==
    /\ variant = "DS"
    /\ call.fn = "none"
    /\ call' = [call EXCEPT !.fn = "calculate_position"]
    /\ ret' = <<DS_calculate_position(call.arg, support_height, R, L)>>
    /\ UNCHANGED <<variant, vessel, nozzles, supports, output>>

Fn_DS_transform_loads ==
    /\ variant = "DS"
    /\ call.fn = "none"
    /\ call' = [call EXCEPT !.fn = "transform_loads"]
    /\ ret' = <<DS_transform_loads(call.arg, support_height, R, L)>>
    /\ UNCHANGED <<variant, vessel, nozzles, supports, output>>

NextFn ==
    \/ Fn_calculate_position
    \/ Fn_transform_nozzle_loads
    \/ Fn_transform_support_loads
    \/ Fn_DS_calculate_position
    \/ Fn_DS_transform_loads

SpecFn == InitFn /\ [][NextFn]_vars

(***************************************************************************)
(* The Calculate branch of NLTrans_V.0sm.py run on attachment records      *)
(* whose offsets the Offset field has not bounded (SpecLoop)               *)
(***************************************************************************)
SuppliedValues ==
    [FormValues EXCEPT !.fractions = {Zero, Rat(6, 5)},
                       !.elevations = {Num(4)},
                       !.aspect_ratios = {Num(2)}]

InitLoop ==
    /\ variant = "V0sm"
    /\ \E v \in Vessels : support_height = v[1] /\ R = v[2] /\ L = v[3]
    /\ nozzles = <<>>
    /\ supports = <<>>
    /\ NoOutput
    /\ call = [fn |-> "none"]
    /\ ret = <<>>

\* one more nozzle record is supplied
SuppliedNozzle ==
    /\ Len(nozzles) < MaxNozzles
    /\ \E n \in direct_nozzles(R, SuppliedValues) :
          nozzles' = Append(nozzles,
                            [n EXCEPT !.tag_no = "N-" \o ToString(Len(nozzles) + 1)])
    /\ ClearOutput
    /\ UNCHANGED <<variant, vessel, supports, fn>>

NextLoop ==
    \/ SuppliedNozzle
    \/ SupportForm
    \/ Calculate

SpecLoop == InitLoop /\ [][NextLoop]_vars

(***************************************************************************)
(* Claims                                                                  *)
(***************************************************************************)
\* the sum of component c over the first k rows, added from the last row
\* back
RECURSIVE SumOfFirst(_, _, _)
SumOfFirst(rows, c, k) ==
    IF k = 0 THEN Zero ELSE RAdd(SumOfFirst(rows, c, k - 1), rows[k][c])

\* the rows of the table that are the synthesized TOTAL record
TotalRows ==
    {i \in DOMAIN formatted_df :
        formatted_df[i]["Tag No."] = "TOTAL" /\ formatted_df[i]["Type"] = ""}

\* the head depth as the claims state it: R for a hemispherical head,
\* R / aspectRatio (the attachment's own) for an ellipsoidal one
HeadDepthOf(a) ==
    IF a.location \in {"Hemispherical Top Head", "Hemispherical Bottom Head"}
    THEN R ELSE RDiv(R, a.aspect_ratio)

\* the head base as the claims state it
HeadBaseOf(a) ==
    IF a.location \in {"Hemispherical Top Head", "Ellipsoidal Top Head"}
    THEN RAdd(support_height, L) ELSE support_height

OnTopHead(a) == a.location \in {"Hemispherical Top Head", "Ellipsoidal Top Head"}
OnBottomHead(a) ==
    a.location \in {"Hemispherical Bottom Head", "Ellipsoidal Bottom Head"}
OnHemispherical(a) ==
    a.location \in {"Hemispherical Top Head", "Hemispherical Bottom Head"}
OnHead(a) == OnTopHead(a) \/ OnBottomHead(a)

\* C1 (Spec): once Calculate has run on one or more attachments, the
\* result is shown, the table holds exactly one TOTAL record, and each of
\* its six components is the sum of that component over the per-attachment
\* result records (NLTrans_V.0sm.py); the six totals are the sums of the
\* nozzles' transformed loads (DS_NLTrans_F.py)
C1_TotalIsSumOfRecords ==
    (outcome # "idle" /\ Len(nozzles) + Len(supports) >= 1) =>
        /\ outcome = "shown"
        /\ Len(totals) = 1
        /\ variant = "V0sm" =>
              LET records == nozzle_results \o support_results
              IN  /\ Len(records) = Len(nozzles) + Len(supports)
                  /\ Cardinality(TotalRows) = 1
                  /\ \A c \in ComponentSet :
                        /\ totals[1][c] = SumOfFirst(records, c, Len(records))
                        /\ \A i \in TotalRows :
                              formatted_df[i][c] = format_2f(totals[1][c])
        /\ variant = "DS" =>
              \A c \in ComponentSet :
                 totals[1][c] =
                    SumOfFirst([i \in DOMAIN nozzles |->
                                  DS_transform_loads(nozzles[i], support_height, R, L)],
                               c, Len(nozzles))

\* C1 witness: a table shown for two nozzles and a pipe support the user
\* tagged TOTAL
C1_Witness ==
    /\ variant = "V0sm"
    /\ outcome = "shown"
    /\ Len(nozzles) = 2
    /\ Len(supports) = 1
    /\ supports[1].tag_no = "TOTAL"
    /\ totals[1]["Mx"] # nozzle_results[1]["Mx"]

\* C2 (Spec): Calculate with zero attachments completes and a total record
\* exists whose six components are all 0
C2_ZeroAttachmentsTotal ==
    (variant = "V0sm" /\ outcome # "idle" /\ nozzles = <<>> /\ supports = <<>>) =>
        /\ outcome = "shown"
        /\ Len(totals) = 1
        /\ \A c \in ComponentSet : totals[1][c] = Zero

\* a call of calculate_position (either program) that returned a position
PositionReturned ==
    /\ call.fn = "calculate_position"
    /\ ret[1].ok

\* the position lies on the head surface measured from the head base, on
\* the head's side of the base
OnHeadSurface(a, Y) ==
    LET d == HeadDepthOf(a)
        h == RSub(Y, HeadBaseOf(a))
    IN  /\ IF OnHemispherical(a)
           THEN RAdd(RSq(h), RSq(a.offset)) = RSq(d)
           ELSE RAdd(RDiv(RSq(h), RSq(d)), RDiv(RSq(a.offset), RSq(R))) = One
        /\ OnTopHead(a) => RLe(HeadBaseOf(a), Y)
        /\ OnBottomHead(a) => RLe(Y, HeadBaseOf(a))

\* C3 for NLTrans_V.0sm.py alone
C3_OnHeadSurface_V0sm ==
    (variant = "V0sm" /\ PositionReturned /\ OnHead(call.arg)
        /\ call.arg.offset # Zero) =>
        OnHeadSurface(call.arg, ret[1].Y)

\* C3 (SpecFn): for every head attachment with offset # 0, the Y that
\* calculate_position returns lies on the head surface measured from the
\* head base: (Y - base)^2 + offset^2 = d^2 (Hemispherical),
\* (Y - base)^2 / d^2 + offset^2 / R^2 = 1 (Ellipsoidal), with Y >= base on
\* a Top head and Y <= base on a Bottom head
C3_OnHeadSurface ==
    (PositionReturned /\ OnHead(call.arg) /\ call.arg.offset # Zero) =>
        OnHeadSurface(call.arg, ret[1].Y)

\* the Bottom-head forces as C4 states them
BottomHeadForces(a, res) ==
    LET s == sin(radians(a.theta))
        c == cos(radians(a.theta))
    IN  /\ res.Fx = RAdd(RNeg(RMul(a.V1, s)), RMul(a.V2, c))
        /\ res.Fy = RNeg(a.P)
        /\ res.Fz = RAdd(RMul(a.V1, c), RMul(a.V2, s))

\* a call of the nozzle load transformation (either program) that returned
LoadsReturned ==
    /\ call.fn \in {"transform_nozzle_loads", "transform_loads"}
    /\ ret[1].ok

\* C4 for NLTrans_V.0sm.py alone
C4_BottomHeadForces_V0sm ==
    (variant = "V0sm" /\ LoadsReturned /\ OnBottomHead(call.arg)) =>
        BottomHeadForces(call.arg, ret[1])

\* C4 (SpecFn): for every nozzle on a Bottom head the load transformation
\* returns Fx = -V1*sin(theta) + V2*cos(theta), Fy = -P,
\* Fz = V1*cos(theta) + V2*sin(theta)
C4_BottomHeadForces ==
    (LoadsReturned /\ OnBottomHead(call.arg)) =>
        BottomHeadForces(call.arg, ret[1])

\* C5 (SpecFn): for every head attachment with offset = 0, in both
\* programs, calculate_position returns X = 0, Z = 0 and Y = base + headDepth
\* on a Top head, Y = base - headDepth on a Bottom head
C5_ApexAtZeroOffset ==
    (call.fn = "calculate_position" /\ OnHead(call.arg)
        /\ call.arg.offset = Zero) =>
        /\ ret[1].ok
        /\ ret[1].X = Zero
        /\ ret[1].Z = Zero
        /\ OnTopHead(call.arg) =>
              ret[1].Y = RAdd(HeadBaseOf(call.arg), HeadDepthOf(call.arg))
        /\ OnBottomHead(call.arg) =>
              ret[1].Y = RSub(HeadBaseOf(call.arg), HeadDepthOf(call.arg))

\* C5 witness: the apex of an ellipsoidal bottom head of aspect ratio 4,
\* asked for at 270 degrees
C5_Witness ==
    /\ variant = "V0sm"
    /\ call.fn = "calculate_position"
    /\ call.arg.location = "Ellipsoidal Bottom Head"
    /\ call.arg.offset = Zero
    /\ call.arg.aspect_ratio = Num(4)
    /\ call.arg.theta = 270
    /\ ret[1].ok
    /\ ret[1].Y = RSub(support_height, RDiv(R, Num(4)))

\* C6 (SpecFn): on a Hemispherical head an offset equal to R is rejected:
\* no record a form built and passed on has it, and calculate_position
\* returns no position for it; an offset greater than R yields an error
\* rather than a position
C6_OffsetEqualRadiusRejected ==
    (variant = "V0sm" /\ call.fn = "calculate_position"
        /\ OnHemispherical(call.arg)) =>
        /\ call.arg.offset = R => (call.origin # "form" /\ ~ret[1].ok)
        /\ RLt(R, call.arg.offset) => ~ret[1].ok

\* C6, its last part alone: an offset greater than R yields an error
C6_OffsetAboveRadiusRaises ==
    (variant = "V0sm" /\ call.fn = "calculate_position"
        /\ OnHemispherical(call.arg) /\ RLt(R, call.arg.offset)) =>
        (~ret[1].ok /\ ret[1].exc = "ValueError")

\* C7 (Spec): every head attachment record the nozzle form builds has
\* 0 <= offset < headDepth, with the head depth of its own aspect ratio
C7_OffsetBelowHeadDepth ==
    variant = "V0sm" =>
        \A i \in DOMAIN nozzles :
            OnHead(nozzles[i]) =>
                /\ RLe(Zero, nozzles[i].offset)
                /\ RLt(nozzles[i].offset, HeadDepthOf(nozzles[i]))

\* the attachments whose own position resolves
Resolves(a) == calculate_position(a, support_height, R, L).ok

C10_ShellNozzleLoads ==
    (variant = "V0sm" /\ call.fn # "none" /\ call.origin = "form"
        /\ IsNozzle(call.arg) /\ call.arg.location = "Shell") =>
        LET a == call.arg
            s == sin(radians(a.theta))
            c == cos(radians(a.theta))
            Y == RAdd(support_height, a.elevation)
            Fx == RAdd(RMul(a.P, s), RMul(a.Vc, c))
            Fz == RAdd(RNeg(RMul(a.P, c)), RMul(a.Vc, s))
        IN  /\ a.offset = Zero
            /\ call.fn = "calculate_position" =>
                  ret[1] = [ok |-> TRUE, X |-> Zero, Y |-> Y, Z |-> Zero]
            /\ call.fn = "transform_nozzle_loads" =>
                  ret[1] = [ok |-> TRUE, Fx |-> Fx, Fy |-> a.VL, Fz |-> Fz,
                            Mx |-> RMul(Y, Fz), My |-> Zero,
                            Mz |-> RNeg(RMul(Y, Fx))]

\* C10 witness: a Shell nozzle at 90 degrees with a vertical load, whose
\* loads have moments about X or Z but none about Y
C10_Witness ==
    /\ variant = "V0sm"
    /\ call.fn = "transform_nozzle_loads"
    /\ call.origin = "form"
    /\ call.arg.location = "Shell"
    /\ call.arg.theta = 90
    /\ call.arg.elevation = Num(4)
    /\ call.arg.VL = Num(3)
    /\ call.arg.P = Num(-2)
    /\ ret[1].ok
    /\ ret[1].Fy = Num(3)
    /\ ret[1].My = Zero
    /\ ret[1].Mz # Zero

\* the arguments calculate_position hands to math.sqrt for attachment a:
\* none for a Shell attachment or a head attachment on the axis
SqrtArguments(a) ==
    IF a.location = "Shell" \/ a.offset = Zero
    THEN {}
    ELSE LET head_type == IF InHemispherical(a.location)
                          THEN "Hemispherical" ELSE "Ellipsoidal"
             head_depth == calculate_head_depth(head_type, R,
                                                get_aspect_ratio(a))
         IN  {sqrt_argument(a.location, head_depth, a.offset, R)}

\* C11 (SpecFn): for every nozzle and pipe support record the forms of
\* NLTrans_V.0sm.py build, every argument calculate_position hands to
\* math.sqrt is non-negative, and calculate_position and the load
\* transformations the Calculate loops call on the record return without
\* an exception
C11_NoMathDomainError ==
    (variant = "V0sm" /\ call.fn # "none" /\ call.origin = "form") =>
        /\ \A x \in SqrtArguments(call.arg) : RLe(Zero, x)
        /\ ret[1].ok

\* C11 witness: an ellipsoidal head nozzle the form built with aspect
\* ratio 4 and an offset beyond its head depth R/4, whose square root
\* argument is positive and whose loads were transformed
C11_Witness ==
    /\ variant = "V0sm"
    /\ call.fn = "transform_nozzle_loads"
    /\ call.origin = "form"
    /\ call.arg.location = "Ellipsoidal Bottom Head"
    /\ call.arg.aspect_ratio = Num(4)
    /\ RLt(RDiv(R, Num(4)), call.arg.offset)
    /\ SqrtArguments(call.arg) = {Rat(576, 625)}
    /\ ret[1].ok

\* the six components of a load transformation result
SameLoads(r1, r2) ==
    /\ r1.ok /\ r2.ok
    /\ \A c \in ComponentSet : r1[c] = r2[c]

\* the nozzle record with the signs of P and V1 changed
NegatedPV1(a) == [a EXCEPT !.P = RNeg(a.P), !.V1 = RNeg(a.V1)]

\* what the other program returns for the call made: the position, or
\* the loads of nozzle record a
OtherPosition(a) ==
    IF variant = "V0sm"
    THEN DS_calculate_position(a, support_height, R, L)
    ELSE calculate_position(a, support_height, R, L)
OtherLoads(a) ==
    IF variant = "V0sm"
    THEN DS_transform_loads(a, support_height, R, L)
    ELSE transform_nozzle_loads(a, support_height, R, L)

\* C12 (SpecFn): for the same vessel and the same nozzle record,
\* DS_NLTrans_F.transform_loads and NLTrans_V.0sm.transform_nozzle_loads
\* return the same Fx, Fy, Fz, Mx, My, Mz for a Shell nozzle and for a
\* Top-head nozzle with offset 0; for a Bottom-head nozzle with offset 0
\* the two calculate_position return the same position, and the loads of
\* one program are those of the other for the record with the signs of P
\* and V1 changed
C12_VariantsAgree ==
    (call.fn # "none" /\ IsNozzle(call.arg)) =>
        LET a == call.arg
            loads == call.fn \in {"transform_nozzle_loads", "transform_loads"}
        IN  /\ (loads /\ a.location = "Shell") =>
                  SameLoads(ret[1], OtherLoads(a))
            /\ (loads /\ OnTopHead(a) /\ a.offset = Zero) =>
                  SameLoads(ret[1], OtherLoads(a))
            /\ (OnBottomHead(a) /\ a.offset = Zero) =>
                  /\ call.fn = "calculate_position" =>
                        (ret[1].ok /\ ret[1] = OtherPosition(a))
                  /\ loads => SameLoads(ret[1], OtherLoads(NegatedPV1(a)))

\* C12 witness: the loads of an ellipsoidal Top-head nozzle of aspect
\* ratio 4 on the axis, with a moment about X, which the other program
\* returns as well
C12_Witness ==
    /\ variant = "DS"
    /\ call.fn = "transform_loads"
    /\ call.arg.location = "Ellipsoidal Top Head"
    /\ call.arg.offset = Zero
    /\ call.arg.aspect_ratio = Num(4)
    /\ ret[1].ok
    /\ ret[1].Mx # Zero
    /\ ret[1].Fy = call.arg.P
    /\ call.arg.P # Zero
    /\ SameLoads(ret[1], transform_nozzle_loads(call.arg, support_height, R, L))

====
